---- MODULE Spec2Model ----
(***************************************************************************)
(* Model of jira_data_handler.py: the three version helpers and            *)
(* streamline_from_dataframe_dynamic, with the pandas operations it calls  *)
(* (apply, sum(axis=1), groupby(...).agg("sum"), column selection).        *)
(*                                                                         *)
(* A Python string is a sequence of one-character strings.  A cell of the  *)
(* version column is a record [k, s, n]: k = "na" is a missing value       *)
(* (pd.isna), k = "str" carries the text s, k = "int" carries the number n *)
(* of an int64 column.                                                     *)
(***************************************************************************)
EXTENDS Integers, Sequences, FiniteSets, TLC

VARIABLES
    df,                    \* the caller's data frame
    merge_versions,        \* the two flags of the call
    merge_minor_versions,
    pc,                    \* "called" before the function body runs, "returned" after
    streamlined_df,        \* the local frame as it stands before the prefix step
    result                 \* the returned final_df

vars == <<df, merge_versions, merge_minor_versions, pc, streamlined_df, result>>

----------------------------------------------------------------------------
(* Bounds of the explored inputs. *)

MaxRows == 2

MaxColRows == 2

MaxCount == 1

----------------------------------------------------------------------------
(* Python str primitives. *)

Digits == <<"0","1","2","3","4","5","6","7","8","9">>

\* the upper-case letters and their lower-case forms
UpperToLower ==
    "A" :> "a" @@ "B" :> "b" @@ "C" :> "c" @@ "D" :> "d" @@ "E" :> "e" @@ "F" :> "f" @@
    "G" :> "g" @@ "H" :> "h" @@ "I" :> "i" @@ "J" :> "j" @@ "K" :> "k" @@ "L" :> "l" @@
    "M" :> "m" @@ "N" :> "n" @@ "O" :> "o" @@ "P" :> "p" @@ "Q" :> "q" @@ "R" :> "r" @@
    "S" :> "s" @@ "T" :> "t" @@ "U" :> "u" @@ "V" :> "v" @@ "W" :> "w" @@ "X" :> "x" @@
    "Y" :> "y" @@ "Z" :> "z"

\* ord(c): the code point that Python's string comparison orders by
Ord ==
    " " :> 32 @@ "." :> 46 @@ "0" :> 48 @@ "1" :> 49 @@ "2" :> 50 @@ "3" :> 51 @@
    "4" :> 52 @@ "5" :> 53 @@ "6" :> 54 @@ "7" :> 55 @@ "8" :> 56 @@ "9" :> 57 @@
    "A" :> 65 @@ "B" :> 66 @@ "C" :> 67 @@ "D" :> 68 @@ "E" :> 69 @@ "F" :> 70 @@
    "G" :> 71 @@ "H" :> 72 @@ "I" :> 73 @@ "J" :> 74 @@ "K" :> 75 @@ "L" :> 76 @@
    "M" :> 77 @@ "N" :> 78 @@ "O" :> 79 @@ "P" :> 80 @@ "Q" :> 81 @@ "R" :> 82 @@
    "S" :> 83 @@ "T" :> 84 @@ "U" :> 85 @@ "V" :> 86 @@ "W" :> 87 @@ "X" :> 88 @@
    "Y" :> 89 @@ "Z" :> 90 @@ "a" :> 97 @@ "b" :> 98 @@ "c" :> 99 @@ "d" :> 100 @@
    "e" :> 101 @@ "f" :> 102 @@ "g" :> 103 @@ "h" :> 104 @@ "i" :> 105 @@ "j" :> 106 @@
    "k" :> 107 @@ "l" :> 108 @@ "m" :> 109 @@ "n" :> 110 @@ "o" :> 111 @@ "p" :> 112 @@
    "q" :> 113 @@ "r" :> 114 @@ "s" :> 115 @@ "t" :> 116 @@ "u" :> 117 @@ "v" :> 118 @@
    "w" :> 119 @@ "x" :> 120 @@ "y" :> 121 @@ "z" :> 122

LowerChar(c) == IF c \in DOMAIN UpperToLower THEN UpperToLower[c] ELSE c

\* str.lower()
RECURSIVE Lower(_)
Lower(s) == IF s = <<>> THEN <<>> ELSE <<LowerChar(Head(s))>> \o Lower(Tail(s))

IsSpace(c) == c = " "

RECURSIVE LStrip(_)
LStrip(s) == IF s # <<>> /\ IsSpace(Head(s)) THEN LStrip(Tail(s)) ELSE s

RECURSIVE RStrip(_)
RStrip(s) ==
    IF s # <<>> /\ IsSpace(s[Len(s)]) THEN RStrip(SubSeq(s, 1, Len(s) - 1)) ELSE s

\* str.strip()
Strip(s) == RStrip(LStrip(s))

\* str.startswith(p)
StartsWith(s, p) == Len(s) >= Len(p) /\ SubSeq(s, 1, Len(p)) = p

\* k in s  (substring test)
Contains(s, k) ==
    \E i \in 0..(Len(s) - Len(k)) : SubSeq(s, i + 1, i + Len(k)) = k

\* s.split("."): the segments between the dots, empty segments kept
RECURSIVE SplitDot(_, _)
SplitDot(s, cur) ==
    IF s = <<>> THEN <<cur>>
    ELSE IF Head(s) = "." THEN <<cur>> \o SplitDot(Tail(s), <<>>)
    ELSE SplitDot(Tail(s), Append(cur, Head(s)))

Split(s) == SplitDot(s, <<>>)

\* a < b for Python strings: code point by code point, a proper prefix first
RECURSIVE StrLess(_, _)
StrLess(a, b) ==
    IF b = <<>> THEN FALSE
    ELSE IF a = <<>> THEN TRUE
    ELSE IF Head(a) = Head(b) THEN StrLess(Tail(a), Tail(b))
    ELSE Ord[Head(a)] < Ord[Head(b)]

\* str(n) of a non-negative int
RECURSIVE IntToStr(_)
IntToStr(n) ==
    IF n < 10 THEN <<Digits[n + 1]>>
    ELSE Append(IntToStr(n \div 10), Digits[(n % 10) + 1])

----------------------------------------------------------------------------
(* Cells of the version column. *)

NA == [k |-> "na", s |-> <<>>, n |-> 0]

StrCell(s) == [k |-> "str", s |-> s, n |-> 0]

IntCell(n) == [k |-> "int", s |-> <<>>, n |-> n]

\* pd.isna(version)
IsNa(version) == version.k = "na"

\* str(version)
PyStr(version) == IF version.k = "int" THEN IntToStr(version.n) ELSE version.s

----------------------------------------------------------------------------
(* The version helpers. *)

normalize_version(version) ==
    IF IsNa(version) THEN version
    ELSE LET v == Strip(Lower(PyStr(version)))
         IN  IF StartsWith(v, <<"v">>) THEN StrCell(Tail(v)) ELSE StrCell(v)

get_major_minor_version(version) ==
    IF IsNa(version) THEN version
    ELSE LET parts == Split(PyStr(version))
         IN  IF Len(parts) >= 2
             THEN StrCell(parts[1] \o <<".">> \o parts[2])
             ELSE version

add_version_prefix(version) ==
    IF IsNa(version) THEN version
    ELSE LET v == PyStr(version)
         IN  IF StartsWith(v, <<"v">>) THEN StrCell(v) ELSE StrCell(<<"v">> \o v)

----------------------------------------------------------------------------
(* The data frame handed to streamline_from_dataframe_dynamic:             *)
(*   df.columns : the column labels, the version column first              *)
(*   df.rows[i] : [version |-> cell of column 0, cells |-> the counts of   *)
(*                 the other columns, in column order]                     *)

RECURSIVE SumSeq(_)
SumSeq(s) == IF s = <<>> THEN 0 ELSE Head(s) + SumSeq(Tail(s))

\* The number a cell of the version column adds to a row sum, when the
\* column's label matches a group: the cell of an int64 column (see InitCols).
CellNum(version) == CASE version.k = "int" -> version.n

\* the keyword-based column groups, in the dict's insertion order
groups == <<
    [label |-> "Done",          keywords |-> <<<<"d","o","n","e">>>>],
    [label |-> "In QA",         keywords |-> <<<<"i","n"," ","q","a">>, <<"q","a">>>>],
    [label |-> "In Review",     keywords |-> <<<<"i","n"," ","r","e","v","i","e","w">>, <<"r","e","v","i","e","w">>>>],
    [label |-> "To Do",         keywords |-> <<<<"t","o"," ","d","o">>, <<"t","o","d","o">>>>],
    [label |-> "Internal Test", keywords |-> <<<<"i","n","t","e","r","n","a","l"," ","t","e","s","t">>>>],
    [label |-> "In Progress",   keywords |-> <<<<"i","n"," ","p","r","o","g","r","e","s","s">>>> ] >>

desired_order ==
    <<"Version", "In QA", "In Review", "Internal Test", "To Do", "In Progress", "Done">>

\* a case-sensitive match: the label is not lower-cased
MatchesAny_case_sensitive(c, keywords) ==
    \E i \in 1..Len(keywords) : Contains(c, keywords[i])

\* any(k in c.lower() for k in keywords)
MatchesAny(c, keywords) ==
    LET lc == Lower(c)
    IN  \E i \in 1..Len(keywords) : Contains(lc, keywords[i])

\* [c for c in cols if any(...)], as the indices into cols (1 = version column)
RECURSIVE MatchingFrom(_, _, _)
MatchingFrom(cols, keywords, j) ==
    IF j > Len(cols) THEN <<>>
    ELSE IF MatchesAny(cols[j], keywords)
         THEN <<j>> \o MatchingFrom(cols, keywords, j + 1)
         ELSE MatchingFrom(cols, keywords, j + 1)

\* first match wins: a column an earlier group matched is not matched again
matching_cols_first_match(cols, keywords) ==
    LET g == CHOOSE x \in 1..Len(groups) : groups[x].keywords = keywords
    IN  SelectSeq(MatchingFrom(cols, keywords, 1),
                  LAMBDA j : \A e \in 1..(g - 1) : ~MatchesAny(cols[j], groups[e].keywords))

matching_cols(cols, keywords) == MatchingFrom(cols, keywords, 1)

\* the normalisation applied whatever merge_versions says
working_version_unconditional(version, mv, mm) ==
    IF mm THEN get_major_minor_version(normalize_version(version))
          ELSE normalize_version(version)

\* working_df after the optional normalisation of column 0
working_version(version, mv, mm) ==
    IF mv
    THEN IF mm THEN get_major_minor_version(normalize_version(version))
               ELSE normalize_version(version)
    ELSE version

\* working_df[matching_cols].sum(axis=1), for one row
RowSum(wversion, cells, matching) ==
    SumSeq([m \in 1..Len(matching) |->
              IF matching[m] = 1 THEN CellNum(wversion)
                                 ELSE cells[matching[m] - 1]])

\* the labels of streamlined_data after "Version", in insertion order
RECURSIVE BucketLabelsFrom(_, _)
BucketLabelsFrom(cols, g) ==
    IF g > Len(groups) THEN <<>>
    ELSE IF matching_cols(cols, groups[g].keywords) # <<>>
         THEN <<groups[g].label>> \o BucketLabelsFrom(cols, g + 1)
         ELSE BucketLabelsFrom(cols, g + 1)

bucket_labels(cols) == BucketLabelsFrom(cols, 1)

Range(s) == {s[i] : i \in 1..Len(s)}

GroupOf(label) == CHOOSE g \in Range(groups) : g.label = label

\* pd.DataFrame(streamlined_data): one row per input row
assign_columns(frame, mv, mm) ==
    LET cols   == frame.columns
        labels == bucket_labels(cols)
    IN  [columns |-> <<"Version">> \o labels,
         rows    |-> [i \in 1..Len(frame.rows) |->
            LET wv == working_version(frame.rows[i].version, mv, mm)
            IN  [Version |-> wv,
                 vals |-> [b \in Range(labels) |->
                    RowSum(wv, frame.rows[i].cells,
                           matching_cols(cols, GroupOf(b).keywords))]]]]

\* the group keys in groupby's order: distinct, ascending by string value
RECURSIVE SortKeys(_)
SortKeys(K) ==
    IF K = {} THEN <<>>
    ELSE LET m == CHOOSE x \in K : \A y \in K \ {x} : StrLess(x.s, y.s)
         IN  <<m>> \o SortKeys(K \ {m})

\* groupby("Version", as_index=False) with the defaults sort=True, dropna=True:
\* rows whose key is missing belong to no group
group_keys(rows) ==
    SortKeys({rows[i].Version : i \in {j \in 1..Len(rows) : ~IsNa(rows[j].Version)}})

RECURSIVE SumOver(_, _, _)
SumOver(rows, I, b) ==
    IF I = {} THEN 0
    ELSE LET i == CHOOSE x \in I : TRUE
         IN  rows[i].vals[b] + SumOver(rows, I \ {i}, b)

\* streamlined_df.groupby("Version", as_index=False).agg({c: "sum" ...})
groupby_sum(sdf) ==
    LET keys == group_keys(sdf.rows)
        numeric_columns == Range(sdf.columns) \ {"Version"}
    IN  [columns |-> sdf.columns,
         rows    |-> [g \in 1..Len(keys) |->
            [Version |-> keys[g],
             vals |-> [b \in numeric_columns |->
                SumOver(sdf.rows,
                        {i \in 1..Len(sdf.rows) : sdf.rows[i].Version = keys[g]},
                        b)]]]]

InSeq(s, x) == \E i \in 1..Len(s) : s[i] = x

\* the columns left in the order they were assigned
final_columns_unordered(columns) == columns

\* [c for c in desired_order if c in streamlined_df.columns]
final_columns(columns) == SelectSeq(desired_order, LAMBDA c : InSeq(columns, c))

\* streamlined_df as it stands at the "Reorder columns" step
streamlined(frame, mv, mm) ==
    IF mv THEN groupby_sum(assign_columns(frame, mv, mm))
          ELSE assign_columns(frame, mv, mm)

\* final_df: columns reordered, then the prefix added to every version
reorder_and_prefix(sdf) ==
    LET fc == final_columns(sdf.columns)
    IN  [columns |-> fc,
         rows    |-> [i \in 1..Len(sdf.rows) |->
            [Version |-> add_version_prefix(sdf.rows[i].Version),
             vals    |-> [b \in Range(fc) \ {"Version"} |-> sdf.rows[i].vals[b]]]]]

streamline_from_dataframe_dynamic(frame, mv, mm) ==
    reorder_and_prefix(streamlined(frame, mv, mm))

----------------------------------------------------------------------------
(* The explored inputs. *)

VersionLabel == <<"V","e","r","s","i","o","n">>

QABuildLabel == <<"Q","A"," ","B","u","i","l","d">>

\* version texts as they come out of a CSV export
Versions == {
    StrCell(<<"1",".","1","7">>),
    StrCell(<<"1",".","1","7",".","2">>),
    StrCell(<<"1",".","2">>),
    StrCell(<<" ","V","1",".","2">>),
    StrCell(<<"v","v","1",".","1","7">>),
    StrCell(<<"2">>),
    NA }

\* the data columns of the explored tables (the labels after the version column)
Layouts == {
    <<<<"D","o","n","e">>, <<"T","o"," ","D","o",".","1">>>>,
    <<<<"I","N"," ","Q","A">>, <<"Q","A"," ","R","e","v","i","e","w">>>>,
    <<<<"I","n"," ","P","r","o","g","r","e","s","s">>, <<"I","n"," ","P","r","o","g","r","e","s","s",".","1">>>>,
    <<<<"t","o","d","o">>, <<"O","t","h","e","r">>>>,
    <<<<"I","n","t","e","r","n","a","l"," ","T","e","s","t">>, <<"I","n"," ","R","e","v","i","e","w">>>> }

\* the version columns of the column-focused tables: an object column ...
ObjectVersions == { StrCell(<<"v","1">>), StrCell(<<"2">>), NA }

\* ... or an int64 column (which holds no missing value)
IntVersions == { IntCell(2) }

\* the counts of the version-focused tables
Counts == 0..MaxCount

\* the counts of the column-focused tables: a cell is empty or holds MaxCount
ColCounts == {0, MaxCount}

RowsOf(versions, counts, ncols, maxrows) ==
    UNION { [1..n -> [version : versions, cells : [1..ncols -> counts]]] : n \in 0..maxrows }

NoFrame == [columns |-> <<>>, rows |-> <<>>]

\* the label of the version column holds a keyword of some group
FirstColumnMatches(label) ==
    \E g \in 1..Len(groups) : MatchesAny(label, groups[g].keywords)

\* Tables that vary the version column: one "Done" column of counts.
Init ==
    /\ df \in { [columns |-> <<VersionLabel, <<"D","o","n","e">>>>, rows |-> r] :
                r \in RowsOf(Versions, Counts, 1, MaxRows) }
    /\ merge_versions \in BOOLEAN
    /\ merge_minor_versions \in BOOLEAN
    /\ pc = "called"
    /\ streamlined_df = NoFrame
    /\ result = NoFrame

\* Tables that vary the column labels.  Every layout has a column that some
\* group matches.  A version column whose label matches a group is summed
\* with the counts (line 70): such a column is explored as an int64 column
\* under merge_versions = FALSE, where the sum is a sum of numbers; what
\* sum(axis=1) makes of text depends on the pandas release.
InitCols ==
    /\ \E first \in {VersionLabel, QABuildLabel}, layout \in Layouts :
         \/ /\ ~FirstColumnMatches(first)
            /\ df \in { [columns |-> <<first>> \o layout, rows |-> r] :
                        r \in RowsOf(ObjectVersions, ColCounts, Len(layout), MaxColRows) }
            /\ merge_versions \in BOOLEAN
         \/ /\ df \in { [columns |-> <<first>> \o layout, rows |-> r] :
                        r \in RowsOf(IntVersions, ColCounts, Len(layout), MaxColRows) }
            /\ merge_versions \in (IF FirstColumnMatches(first) THEN {FALSE} ELSE BOOLEAN)
    /\ merge_minor_versions \in BOOLEAN
    /\ pc = "called"
    /\ streamlined_df = NoFrame
    /\ result = NoFrame

\* One call of streamline_from_dataframe_dynamic(df, merge_versions,
\* merge_minor_versions): the caller's df is copied, never changed.
Streamline ==
    /\ pc = "called"
    /\ result' = streamline_from_dataframe_dynamic(df, merge_versions, merge_minor_versions)
    /\ streamlined_df' = streamlined(df, merge_versions, merge_minor_versions)
    /\ pc' = "returned"
    /\ UNCHANGED <<df, merge_versions, merge_minor_versions>>

Next == Streamline

Spec == Init /\ [][Next]_vars

SpecCols == InitCols /\ [][Next]_vars

----------------------------------------------------------------------------
(* Vocabulary of the properties, stated on the caller's df and the         *)
(* returned table only.                                                    *)

Returned == pc = "returned"

InRows == 1..Len(df.rows)

OutRows == 1..Len(result.rows)

Buckets == {groups[g].label : g \in 1..Len(groups)}

OutBuckets == Range(result.columns) \ {"Version"}

\* the label, lower-cased, has the keyword somewhere inside it
HasKeyword(label, kw) ==
    LET low == Lower(label)
    IN  \E a \in 1..Len(low) :
            /\ a + Len(kw) - 1 <= Len(low)
            /\ \A d \in 1..Len(kw) : low[a + d - 1] = kw[d]

\* the label matches bucket b: it has one of b's keywords
LabelMatches(label, b) ==
    \E g \in 1..Len(groups) :
        /\ groups[g].label = b
        /\ \E k \in 1..Len(groups[g].keywords) : HasKeyword(label, groups[g].keywords[k])

\* the columns of df (1 = the version column) whose label matches bucket b
ColumnsOf(b) == {j \in 1..Len(df.columns) : LabelMatches(df.columns[j], b)}

\* the data columns alone
DataColumnsOf(b) == ColumnsOf(b) \ {1}

\* the number in row i, column j of df
Cell(i, j) ==
    IF j = 1 THEN (IF df.rows[i].version.k = "int" THEN df.rows[i].version.n ELSE 0)
             ELSE df.rows[i].cells[j - 1]

RECURSIVE SumPairs(_)
SumPairs(P) ==
    IF P = {} THEN 0
    ELSE LET p == CHOOSE x \in P : TRUE IN Cell(p[1], p[2]) + SumPairs(P \ {p})

\* the sum of the cells of df in rows I and columns J
Total(I, J) == SumPairs(I \X J)

RECURSIVE SumOut(_, _)
SumOut(G, b) ==
    IF G = {} THEN 0
    ELSE LET g == CHOOSE x \in G : TRUE IN result.rows[g].vals[b] + SumOut(G \ {g}, b)

\* the version text the rows are grouped by: lower-cased, trimmed, one leading
\* "v" removed, and cut to major.minor when merge_minor_versions is set
GroupKey(version) ==
    working_version(version, TRUE, merge_minor_versions)

\* the input rows that output row g stands for
InputsOf(g) ==
    IF merge_versions
    THEN {i \in InRows : GroupKey(df.rows[i].version) = streamlined_df.rows[g].Version}
    ELSE {g}

\* "v" put in front of a text that does not start with it
Prefixed(s) == IF s # <<>> /\ s[1] = "v" THEN s ELSE <<"v">> \o s

----------------------------------------------------------------------------
(* Properties of the version handling, checked under Spec.                 *)

\* C1: with merge_versions set, no two rows of the returned table carry the
\* same final version label.
C1_UniqueVersionLabels ==
    (Returned /\ merge_versions) =>
        \A i, j \in OutRows : i # j => result.rows[i].Version # result.rows[j].Version

\* C2: for each bucket of the returned table, its column summed over all
\* returned rows equals the matching columns of df summed over all rows of df.
C2_CountConservation ==
    Returned =>
        \A b \in OutBuckets : SumOut(OutRows, b) = Total(InRows, ColumnsOf(b))

\* C3: with merge_versions set, the returned table has one row per distinct
\* normalized (and truncated) version value of df, a missing value included,
\* and each row holds the sums of the input rows with its key.
C3_GroupingCorrectness ==
    (Returned /\ merge_versions) =>
        /\ Len(result.rows) = Cardinality({GroupKey(df.rows[i].version) : i \in InRows})
        /\ \A g \in OutRows : \A b \in OutBuckets :
              result.rows[g].vals[b] = Total(InputsOf(g), ColumnsOf(b))

\* C4: a missing version stays missing through the three helpers, and with
\* merge_versions set the rows with a missing version appear as one returned
\* row with a missing Version and their summed counts.
C4_MissingValuePassthrough ==
    /\ normalize_version(NA) = NA
    /\ get_major_minor_version(NA) = NA
    /\ add_version_prefix(NA) = NA
    /\ (Returned /\ merge_versions /\ \E i \in InRows : IsNa(df.rows[i].version)) =>
          \E g \in OutRows :
              /\ IsNa(result.rows[g].Version)
              /\ \A b \in OutBuckets :
                    result.rows[g].vals[b] =
                        Total({i \in InRows : IsNa(df.rows[i].version)}, ColumnsOf(b))

\* C5: with merge_versions unset, the returned table has one row per input
\* row in the input order, the version text untouched but for the prefix
\* (no lower-casing, trimming, stripping or truncation), the counts of row i
\* those of input row i.
C5_NoOpWhenDisabled ==
    (Returned /\ ~merge_versions) =>
        /\ Len(result.rows) = Len(df.rows)
        /\ \A i \in InRows :
              /\ IsNa(df.rows[i].version) => IsNa(result.rows[i].Version)
              /\ ~IsNa(df.rows[i].version) =>
                    /\ result.rows[i].Version.k = "str"
                    /\ result.rows[i].Version.s = Prefixed(df.rows[i].version.s)
              /\ \A b \in OutBuckets :
                    result.rows[i].vals[b] = Total({i}, ColumnsOf(b))

\* C5 witness: two rows with the same un-normalized text " V1.2", returned as
\* two rows "v V1.2".
C5_Witness ==
    /\ Returned /\ ~merge_versions
    /\ Len(df.rows) = 2
    /\ \A i \in InRows : df.rows[i].version = StrCell(<<" ","V","1",".","2">>)
    /\ Len(result.rows) = 2
    /\ \A i \in OutRows : result.rows[i].Version.s = <<"v"," ","V","1",".","2">>
    /\ result.rows[1].vals["Done"] # result.rows[2].vals["Done"]

\* C9: with merge_versions set, the returned rows are in ascending string
\* order of the version labels as returned.
C9_AscendingByReturnedLabel ==
    (Returned /\ merge_versions) =>
        \A i, j \in OutRows :
            i < j => ~StrLess(result.rows[j].Version.s, result.rows[i].Version.s)

----------------------------------------------------------------------------
(* Properties of the column classification, checked under SpecCols.        *)

CanonicalOrder ==
    <<"Version", "In QA", "In Review", "Internal Test", "To Do", "In Progress", "Done">>

PosIn(s, x) == CHOOSE i \in 1..Len(s) : s[i] = x

\* C6: the columns of the returned table are a subsequence of the canonical
\* order, and a bucket's column is there exactly when some column label of df
\* matches one of the bucket's keywords.
C6_CanonicalColumnSubset ==
    Returned =>
        /\ \A i \in 1..Len(result.columns) : InSeq(CanonicalOrder, result.columns[i])
        /\ \A i, j \in 1..Len(result.columns) :
              i < j => PosIn(CanonicalOrder, result.columns[i])
                         < PosIn(CanonicalOrder, result.columns[j])
        /\ \A b \in Buckets : (b \in Range(result.columns)) <=> (ColumnsOf(b) # {})

\* C6 witness: "Done" and "To Do.1" were assigned in the order Done, To Do and
\* are returned as Version, To Do, Done; the four other buckets are absent.
C6_Witness ==
    /\ Returned
    /\ SubSeq(df.columns, 2, 3) = <<<<"D","o","n","e">>, <<"T","o"," ","D","o",".","1">>>>
    /\ streamlined_df.columns = <<"Version", "Done", "To Do">>
    /\ result.columns = <<"Version", "To Do", "Done">>

\* the buckets a column's label matches
BucketsOf(j) == {b \in Buckets : LabelMatches(df.columns[j], b)}

\* the first of them in the declaration order of the keyword lists
FirstBucketOf(j) ==
    groups[CHOOSE g \in 1..Len(groups) :
              /\ groups[g].label \in BucketsOf(j)
              /\ \A e \in 1..(g - 1) : groups[e].label \notin BucketsOf(j)].label

\* C7 as stated: a column that matches several buckets is counted under the
\* first of them only, so every returned count is the sum of the columns whose
\* first matching bucket it is.
C7_FirstMatchOnly ==
    Returned =>
        \A g \in OutRows : \A b \in OutBuckets :
            result.rows[g].vals[b] =
                Total(InputsOf(g), {j \in ColumnsOf(b) : FirstBucketOf(j) = b})

\* C7 amended: a column that matches several buckets is counted under every
\* one of them: each of those buckets is returned, and its count is the
\* column's cells plus those of the bucket's other columns.
C7_CountedInEveryMatch ==
    Returned =>
        \A j \in 1..Len(df.columns) :
            Cardinality(BucketsOf(j)) > 1 =>
                \A b \in BucketsOf(j) :
                    /\ b \in OutBuckets
                    /\ \A g \in OutRows :
                          result.rows[g].vals[b] =
                              Total(InputsOf(g), {j})
                                + Total(InputsOf(g), ColumnsOf(b) \ {j})

\* C7 witness: "QA Review" holds a count where "IN QA" holds none, and the
\* count is returned under In QA and under In Review.
C7_Witness ==
    /\ Returned
    /\ df.columns[3] = <<"Q","A"," ","R","e","v","i","e","w">>
    /\ BucketsOf(3) = {"In QA", "In Review"}
    /\ \E g \in OutRows :
          /\ Total(InputsOf(g), {3}) >= 1
          /\ Total(InputsOf(g), {2}) = 0
          /\ result.rows[g].vals["In QA"] = Total(InputsOf(g), {3})
          /\ result.rows[g].vals["In Review"] = Total(InputsOf(g), {3})

\* C8: the version column is never classified: every returned bucket has a
\* matching data column, and its counts are sums of data columns alone.
C8_VersionColumnNeverClassified ==
    Returned =>
        \A b \in OutBuckets :
            /\ DataColumnsOf(b) # {}
            /\ \A g \in OutRows :
                  result.rows[g].vals[b] = Total(InputsOf(g), DataColumnsOf(b))

\* C10: a bucket with a matching column (lower-cased label containing one of
\* its keywords) is returned, and its value in each row is the sum of the
\* row's cells over all the matching columns.
C10_SumOfMatchingColumns ==
    Returned =>
        \A b \in Buckets :
            ColumnsOf(b) # {} =>
                /\ b \in OutBuckets
                /\ \A g \in OutRows :
                      result.rows[g].vals[b] = Total(InputsOf(g), ColumnsOf(b))

\* C10 witness: "In Progress" and "In Progress.1" both hold a count in a row,
\* and the row is returned with their sum under In Progress.
C10_Witness ==
    /\ Returned /\ ~merge_versions
    /\ SubSeq(df.columns, 2, 3) = <<<<"I","n"," ","P","r","o","g","r","e","s","s">>, <<"I","n"," ","P","r","o","g","r","e","s","s",".","1">>>>
    /\ \E i \in InRows :
          /\ df.rows[i].cells[1] >= 1
          /\ df.rows[i].cells[2] >= 1
          /\ result.rows[i].vals["In Progress"] = df.rows[i].cells[1] + df.rows[i].cells[2]

====
